---- MODULE Spec2Model ----
(***************************************************************************)
(* The routing-and-fallback engine of the Eco-LLM switcher: the Flask      *)
(* backend (python_backend/app.py) and the earlier three-provider script   *)
(* (HACKMIT.py).  Text is modelled character by character: a string is a   *)
(* sequence of one-character strings, so that trimming, case folding,      *)
(* punctuation stripping, word counting and keyword search are computed    *)
(* the way the Python code computes them.                                  *)
(***************************************************************************)
EXTENDS Integers, Sequences, FiniteSets, TLC

(***************************************************************************)
(* Characters.  BULLET and SUB2 stand for the two non-ASCII characters of  *)
(* the canned answers (U+2022 and U+2082).                                 *)
(***************************************************************************)
Whitespace == {" ", "\n", "\t"}

UpperCase ==
  <<"A","B","C","D","E","F","G","H","I","J","K","L","M",
    "N","O","P","Q","R","S","T","U","V","W","X","Y","Z">>

LowerCase ==
  <<"a","b","c","d","e","f","g","h","i","j","k","l","m",
    "n","o","p","q","r","s","t","u","v","w","x","y","z">>

Digits == {"0","1","2","3","4","5","6","7","8","9"}

Range(f) == {f[i] : i \in DOMAIN f}

\* re: \w (letters, digits, underscore; U+2082 is alphanumeric for Python)
WordChars == Range(UpperCase) \cup Range(LowerCase) \cup Digits \cup {"_", "SUB2"}

(***************************************************************************)
(* Texts of the program.                                                   *)
(***************************************************************************)
\* query_simple: the answer returned when the prompt mentions renewable energy
RENEWABLE_ANSWER ==
  <<"R","e","n","e","w","a","b","l","e"," ","e","n","e","r","g","y"," ","r","e","f","e","r","s",
    " ","t","o"," ","e","n","e","r","g","y"," ","s","o","u","r","c","e","s"," ","t","h","a","t",
    " ","a","r","e"," ","n","a","t","u","r","a","l","l","y"," ","r","e","p","l","e","n","i","s",
    "h","e","d"," ","a","n","d"," ","v","i","r","t","u","a","l","l","y"," ","i","n","e","x","h",
    "a","u","s","t","i","b","l","e"," ","o","n"," ","h","u","m","a","n"," ","t","i","m","e","s",
    "c","a","l","e","s","."," ","T","h","e"," ","m","a","i","n"," ","t","y","p","e","s"," ","i",
    "n","c","l","u","d","e",":","\n","\n","BULLET"," ","S","o","l","a","r"," ","e","n","e","r",
    "g","y"," ","-"," ","f","r","o","m"," ","s","u","n","l","i","g","h","t"," ","u","s","i","n",
    "g"," ","p","h","o","t","o","v","o","l","t","a","i","c"," ","p","a","n","e","l","s"," ","o",
    "r"," ","s","o","l","a","r"," ","t","h","e","r","m","a","l"," ","s","y","s","t","e","m","s",
    "\n","BULLET"," ","W","i","n","d"," ","e","n","e","r","g","y"," ","-"," ","f","r","o","m",
    " ","w","i","n","d"," ","t","u","r","b","i","n","e","s"," ","t","h","a","t"," ","c","o","n",
    "v","e","r","t"," ","w","i","n","d"," ","m","o","t","i","o","n"," ","i","n","t","o"," ","e",
    "l","e","c","t","r","i","c","i","t","y"," "," ","\n","BULLET"," ","H","y","d","r","o","e",
    "l","e","c","t","r","i","c"," ","p","o","w","e","r"," ","-"," ","f","r","o","m"," ","f","l",
    "o","w","i","n","g"," ","w","a","t","e","r"," ","i","n"," ","r","i","v","e","r","s"," ","a",
    "n","d"," ","d","a","m","s","\n","BULLET"," ","G","e","o","t","h","e","r","m","a","l"," ",
    "e","n","e","r","g","y"," ","-"," ","f","r","o","m"," ","h","e","a","t"," ","s","t","o","r",
    "e","d"," ","b","e","n","e","a","t","h"," ","t","h","e"," ","E","a","r","t","h","'","s"," ",
    "s","u","r","f","a","c","e","\n","BULLET"," ","B","i","o","m","a","s","s"," ","e","n","e",
    "r","g","y"," ","-"," ","f","r","o","m"," ","o","r","g","a","n","i","c"," ","m","a","t","e",
    "r","i","a","l","s"," ","l","i","k","e"," ","w","o","o","d",","," ","c","r","o","p","s",",",
    " ","a","n","d"," ","w","a","s","t","e","\n","\n","T","h","e","s","e"," ","s","o","u","r",
    "c","e","s"," ","p","r","o","d","u","c","e"," ","l","i","t","t","l","e"," ","t","o"," ","n",
    "o"," ","g","r","e","e","n","h","o","u","s","e"," ","g","a","s"," ","e","m","i","s","s","i",
    "o","n","s"," ","c","o","m","p","a","r","e","d"," ","t","o"," ","f","o","s","s","i","l"," ",
    "f","u","e","l","s",","," ","m","a","k","i","n","g"," ","t","h","e","m"," ","c","r","u","c",
    "i","a","l"," ","f","o","r"," ","c","o","m","b","a","t","i","n","g"," ","c","l","i","m","a",
    "t","e"," ","c","h","a","n","g","e"," ","a","n","d"," ","a","c","h","i","e","v","i","n","g",
    " ","s","u","s","t","a","i","n","a","b","l","e"," ","d","e","v","e","l","o","p","m","e","n",
    "t",".">>
\* query_simple: the answer returned when the prompt mentions climate change
CLIMATE_ANSWER ==
  <<"C","l","i","m","a","t","e"," ","c","h","a","n","g","e"," ","r","e","f","e","r","s"," ","t",
    "o"," ","l","o","n","g","-","t","e","r","m"," ","s","h","i","f","t","s"," ","i","n"," ","g",
    "l","o","b","a","l"," ","t","e","m","p","e","r","a","t","u","r","e","s"," ","a","n","d"," ",
    "w","e","a","t","h","e","r"," ","p","a","t","t","e","r","n","s","."," ","W","h","i","l","e",
    " ","c","l","i","m","a","t","e"," ","v","a","r","i","a","t","i","o","n","s"," ","o","c","c",
    "u","r"," ","n","a","t","u","r","a","l","l","y",","," ","h","u","m","a","n"," ","a","c","t",
    "i","v","i","t","i","e","s"," ","h","a","v","e"," ","b","e","e","n"," ","t","h","e"," ","m",
    "a","i","n"," ","d","r","i","v","e","r"," ","s","i","n","c","e"," ","t","h","e"," ","1","8",
    "0","0","s",","," ","p","r","i","m","a","r","i","l","y"," ","t","h","r","o","u","g","h"," ",
    "b","u","r","n","i","n","g"," ","f","o","s","s","i","l"," ","f","u","e","l","s",".","\n",
    "\n","K","e","y"," ","i","m","p","a","c","t","s"," ","i","n","c","l","u","d","e",":","\n",
    "BULLET"," ","R","i","s","i","n","g"," ","g","l","o","b","a","l"," ","t","e","m","p","e",
    "r","a","t","u","r","e","s","\n","BULLET"," ","M","o","r","e"," ","f","r","e","q","u","e",
    "n","t"," ","e","x","t","r","e","m","e"," ","w","e","a","t","h","e","r"," ","e","v","e","n",
    "t","s","\n","BULLET"," ","S","e","a"," ","l","e","v","e","l"," ","r","i","s","e","\n",
    "BULLET"," ","O","c","e","a","n"," ","a","c","i","d","i","f","i","c","a","t","i","o","n",
    "\n","BULLET"," ","E","c","o","s","y","s","t","e","m"," ","d","i","s","r","u","p","t","i",
    "o","n","\n","\n","S","o","l","u","t","i","o","n","s"," ","i","n","v","o","l","v","e"," ",
    "r","e","d","u","c","i","n","g"," ","g","r","e","e","n","h","o","u","s","e"," ","g","a","s",
    " ","e","m","i","s","s","i","o","n","s"," ","t","h","r","o","u","g","h"," ","r","e","n","e",
    "w","a","b","l","e"," ","e","n","e","r","g","y",","," ","e","n","e","r","g","y"," ","e","f",
    "f","i","c","i","e","n","c","y",","," ","s","u","s","t","a","i","n","a","b","l","e"," ","t",
    "r","a","n","s","p","o","r","t","a","t","i","o","n",","," ","a","n","d"," ","p","r","o","t",
    "e","c","t","i","n","g"," ","n","a","t","u","r","a","l"," ","c","a","r","b","o","n"," ","s",
    "i","n","k","s"," ","l","i","k","e"," ","f","o","r","e","s","t","s",".">>
\* query_simple: the answer returned when the prompt mentions sustainability
SUSTAINABILITY_ANSWER ==
  <<"S","u","s","t","a","i","n","a","b","i","l","i","t","y"," ","m","e","a","n","s"," ","m","e",
    "e","t","i","n","g"," ","p","r","e","s","e","n","t"," ","n","e","e","d","s"," ","w","i","t",
    "h","o","u","t"," ","c","o","m","p","r","o","m","i","s","i","n","g"," ","f","u","t","u","r",
    "e"," ","g","e","n","e","r","a","t","i","o","n","s","'"," ","a","b","i","l","i","t","y"," ",
    "t","o"," ","m","e","e","t"," ","t","h","e","i","r"," ","o","w","n"," ","n","e","e","d","s",
    "."," ","I","t"," ","h","a","s"," ","t","h","r","e","e"," ","m","a","i","n"," ","p","i","l",
    "l","a","r","s",":","\n","\n","E","n","v","i","r","o","n","m","e","n","t","a","l",":"," ",
    "P","r","o","t","e","c","t","i","n","g"," ","n","a","t","u","r","a","l"," ","r","e","s","o",
    "u","r","c","e","s"," ","a","n","d"," ","e","c","o","s","y","s","t","e","m","s","\n","E",
    "c","o","n","o","m","i","c",":"," ","S","u","p","p","o","r","t","i","n","g"," ","l","o","n",
    "g","-","t","e","r","m"," ","e","c","o","n","o","m","i","c"," ","g","r","o","w","t","h"," ",
    "a","n","d"," ","p","r","o","s","p","e","r","i","t","y"," "," ","\n","S","o","c","i","a",
    "l",":"," ","E","n","s","u","r","i","n","g"," ","s","o","c","i","a","l"," ","e","q","u","i",
    "t","y"," ","a","n","d"," ","h","u","m","a","n"," ","w","e","l","l","-","b","e","i","n","g",
    "\n","\n","K","e","y"," ","p","r","a","c","t","i","c","e","s"," ","i","n","c","l","u","d",
    "e"," ","u","s","i","n","g"," ","r","e","n","e","w","a","b","l","e"," ","e","n","e","r","g",
    "y",","," ","r","e","d","u","c","i","n","g"," ","w","a","s","t","e",","," ","c","o","n","s",
    "e","r","v","i","n","g"," ","w","a","t","e","r",","," ","s","u","p","p","o","r","t","i","n",
    "g"," ","l","o","c","a","l"," ","c","o","m","m","u","n","i","t","i","e","s",","," ","a","n",
    "d"," ","m","a","k","i","n","g"," ","e","n","v","i","r","o","n","m","e","n","t","a","l","l",
    "y"," ","c","o","n","s","c","i","o","u","s"," ","c","h","o","i","c","e","s"," ","i","n"," ",
    "d","a","i","l","y"," ","l","i","f","e",".">>
\* query_simple: the answer returned when the prompt mentions carbon footprint
FOOTPRINT_ANSWER ==
  <<"A"," ","c","a","r","b","o","n"," ","f","o","o","t","p","r","i","n","t"," ","i","s"," ","t",
    "h","e"," ","t","o","t","a","l"," ","a","m","o","u","n","t"," ","o","f"," ","g","r","e","e",
    "n","h","o","u","s","e"," ","g","a","s","e","s"," ","(","p","r","i","m","a","r","i","l","y",
    " ","C","O","SUB2",")"," ","e","m","i","t","t","e","d"," ","d","i","r","e","c","t","l","y",
    " ","o","r"," ","i","n","d","i","r","e","c","t","l","y"," ","b","y"," ","a","n"," ","i","n",
    "d","i","v","i","d","u","a","l",","," ","o","r","g","a","n","i","z","a","t","i","o","n",",",
    " ","e","v","e","n","t",","," ","o","r"," ","p","r","o","d","u","c","t",".","\n","\n","I",
    "t","'","s"," ","m","e","a","s","u","r","e","d"," ","i","n"," ","t","o","n","s"," ","o","f",
    " ","C","O","SUB2"," ","e","q","u","i","v","a","l","e","n","t"," ","a","n","d"," ","i","n",
    "c","l","u","d","e","s",":","\n","BULLET"," ","D","i","r","e","c","t"," ","e","m","i","s",
    "s","i","o","n","s"," ","f","r","o","m"," ","a","c","t","i","v","i","t","i","e","s"," ","y",
    "o","u"," ","c","o","n","t","r","o","l"," ","(","d","r","i","v","i","n","g",","," ","h","e",
    "a","t","i","n","g",")","\n","BULLET"," ","I","n","d","i","r","e","c","t"," ","e","m","i",
    "s","s","i","o","n","s"," ","f","r","o","m"," ","p","r","o","d","u","c","t","s"," ","y","o",
    "u"," ","u","s","e"," ","(","f","o","o","d",","," ","c","l","o","t","h","i","n","g",","," ",
    "s","e","r","v","i","c","e","s",")","\n","\n","W","a","y","s"," ","t","o"," ","r","e","d",
    "u","c","e"," ","y","o","u","r"," ","c","a","r","b","o","n"," ","f","o","o","t","p","r","i",
    "n","t",":","\n","BULLET"," ","U","s","e"," ","r","e","n","e","w","a","b","l","e"," ","e",
    "n","e","r","g","y","\n","BULLET"," ","D","r","i","v","e"," ","l","e","s","s",","," ","w",
    "a","l","k","/","b","i","k","e"," ","m","o","r","e","\n","BULLET"," ","E","a","t"," ","l",
    "e","s","s"," ","m","e","a","t",","," ","m","o","r","e"," ","p","l","a","n","t","-","b","a",
    "s","e","d"," ","f","o","o","d","s","\n","BULLET"," ","R","e","d","u","c","e",","," ","r",
    "e","u","s","e",","," ","r","e","c","y","c","l","e","\n","BULLET"," ","C","h","o","o","s",
    "e"," ","e","n","e","r","g","y","-","e","f","f","i","c","i","e","n","t"," ","a","p","p","l",
    "i","a","n","c","e","s","\n","BULLET"," ","S","u","p","p","o","r","t"," ","s","u","s","t",
    "a","i","n","a","b","l","e"," ","c","o","m","p","a","n","i","e","s">>
\* query_simple: the default answer, up to the interpolated prompt
DEFAULT_ANSWER_HEAD ==
  <<"I"," ","u","n","d","e","r","s","t","a","n","d"," ","y","o","u","'","r","e"," ","a","s","k",
    "i","n","g"," ","a","b","o","u","t",":"," ">>
\* query_simple: the default answer, after the interpolated prompt
DEFAULT_ANSWER_TAIL ==
  <<"\n","\n","T","h","i","s"," ","i","s"," ","a"," ","s","i","m","p","l","i","f","i","e","d",
    " ","r","e","s","p","o","n","s","e","."," ","F","o","r"," ","m","o","r","e"," ","d","e","t",
    "a","i","l","e","d"," ","i","n","f","o","r","m","a","t","i","o","n",","," ","I","'","d"," ",
    "r","e","c","o","m","m","e","n","d",":","\n","BULLET"," ","C","o","n","s","u","l","t","i",
    "n","g"," ","r","e","l","i","a","b","l","e"," ","s","o","u","r","c","e","s"," ","l","i","k",
    "e"," ","s","c","i","e","n","t","i","f","i","c"," ","j","o","u","r","n","a","l","s","\n",
    "BULLET"," ","C","h","e","c","k","i","n","g"," ","g","o","v","e","r","n","m","e","n","t",
    " ","e","n","v","i","r","o","n","m","e","n","t","a","l"," ","w","e","b","s","i","t","e","s",
    "\n","BULLET"," ","S","p","e","a","k","i","n","g"," ","w","i","t","h"," ","e","x","p","e",
    "r","t","s"," ","i","n"," ","t","h","e"," ","f","i","e","l","d","\n","BULLET"," ","U","s",
    "i","n","g"," ","m","o","r","e"," ","a","d","v","a","n","c","e","d"," ","A","I"," ","m","o",
    "d","e","l","s"," ","f","o","r"," ","c","o","m","p","l","e","x"," ","q","u","e","r","i","e",
    "s","\n","\n","T","h","e"," ","t","o","p","i","c"," ","y","o","u","'","r","e"," ","i","n",
    "t","e","r","e","s","t","e","d"," ","i","n"," ","i","s"," ","i","m","p","o","r","t","a","n",
    "t"," ","f","o","r"," ","u","n","d","e","r","s","t","a","n","d","i","n","g"," ","e","n","v",
    "i","r","o","n","m","e","n","t","a","l"," ","i","s","s","u","e","s"," ","a","n","d"," ","s",
    "u","s","t","a","i","n","a","b","i","l","i","t","y",".">>

KW_RENEWABLE ==
  <<"r","e","n","e","w","a","b","l","e"," ","e","n","e","r","g","y">>
KW_CLIMATE ==
  <<"c","l","i","m","a","t","e"," ","c","h","a","n","g","e">>
KW_SUSTAINABILITY ==
  <<"s","u","s","t","a","i","n","a","b","i","l","i","t","y">>
KW_FOOTPRINT ==
  <<"c","a","r","b","o","n"," ","f","o","o","t","p","r","i","n","t">>

APOLOGY ==
  <<"S","o","r","r","y",","," ","n","o","n","e"," ","o","f"," ","t","h","e"," ","a","v","a","i",
    "l","a","b","l","e"," ","m","o","d","e","l","s"," ","c","o","u","l","d"," ","g","e","n","e",
    "r","a","t","e"," ","a"," ","r","e","s","p","o","n","s","e",".">>
OLLAMA_ERROR ==
  <<"O","l","l","a","m","a"," ","A","P","I"," ","e","r","r","o","r",":"," ">>
HF_ERROR ==
  <<"H","u","g","g","i","n","g"," ","F","a","c","e"," ","A","P","I"," ","e","r","r","o","r",":",
    " ">>
CLAUDE_ERROR ==
  <<"C","l","a","u","d","e"," ","A","P","I"," ","e","r","r","o","r",":"," ">>

\* is_unhelpful_response: the words it looks for
W_WRITE ==
  <<"w","r","i","t","e">>
W_POEM ==
  <<"p","o","e","m">>
W_BY ==
  <<"b","y">>
W_CAT ==
  <<"c","a","t">>
W_SNOW ==
  <<"s","n","o","w">>

\* suggest_optimal_model: the reasoning keywords
REASONING_WORDS ==
  { <<"e","x","p","l","a","i","n">>,
    <<"a","n","a","l","y","z","e">>,
    <<"c","o","m","p","a","r","e">>,
    <<"c","o","n","t","r","a","s","t">>,
    <<"e","v","a","l","u","a","t","e">>,
    <<"c","r","i","t","i","q","u","e">>,
    <<"d","i","s","c","u","s","s">>,
    <<"d","e","s","c","r","i","b","e">>,
    <<"d","e","f","i","n","e">> }
\* suggest_optimal_model: the technical keywords
TECHNICAL_WORDS ==
  { <<"a","l","g","o","r","i","t","h","m">>,
    <<"f","u","n","c","t","i","o","n">>,
    <<"c","o","d","e">>,
    <<"p","r","o","g","r","a","m","m","i","n","g">>,
    <<"t","e","c","h","n","i","c","a","l">>,
    <<"s","c","i","e","n","t","i","f","i","c">>,
    <<"r","e","s","e","a","r","c","h">> }
\* suggest_optimal_model: the creative keywords
CREATIVE_WORDS ==
  { <<"w","r","i","t","e">>,
    <<"c","r","e","a","t","e">>,
    <<"g","e","n","e","r","a","t","e">>,
    <<"c","o","m","p","o","s","e">>,
    <<"d","e","s","i","g","n">>,
    <<"i","m","a","g","i","n","e">>,
    <<"s","t","o","r","y">>,
    <<"p","o","e","m">>,
    <<"e","s","s","a","y">> }
\* suggest_optimal_model: the quantitative keywords
QUANTITATIVE_WORDS ==
  { <<"s","o","l","v","e">>,
    <<"c","a","l","c","u","l","a","t","e">>,
    <<"c","o","m","p","u","t","e">>,
    <<"f","o","r","m","u","l","a">>,
    <<"e","q","u","a","t","i","o","n">>,
    <<"m","a","t","h">>,
    <<"s","t","a","t","i","s","t","i","c","s">>,
    <<"p","r","o","b","a","b","i","l","i","t","y">> }
\* suggest_optimal_model: the procedural keywords
PROCEDURAL_WORDS ==
  { <<"s","t","e","p">>,
    <<"p","r","o","c","e","s","s">>,
    <<"h","o","w"," ","t","o">>,
    <<"t","u","t","o","r","i","a","l">>,
    <<"g","u","i","d","e">>,
    <<"i","n","s","t","r","u","c","t","i","o","n","s">> }
\* suggest_optimal_model: the elaboration keywords
ELABORATION_WORDS ==
  { <<"d","e","t","a","i","l","e","d">>,
    <<"c","o","m","p","r","e","h","e","n","s","i","v","e">>,
    <<"t","h","o","r","o","u","g","h">>,
    <<"i","n","-","d","e","p","t","h">>,
    <<"e","x","t","e","n","s","i","v","e">>,
    <<"p","o","l","i","c","y">>,
    <<"r","e","c","o","m","m","e","n","d","a","t","i","o","n","s">>,
    <<"a","n","a","l","y","s","i","s">> }
\* suggest_optimal_model: the conjunction keywords
CONJUNCTION_WORDS ==
  { <<"a","n","d">>,
    <<"a","l","s","o">>,
    <<"a","d","d","i","t","i","o","n","a","l","l","y">>,
    <<"f","u","r","t","h","e","r","m","o","r","e">>,
    <<"m","o","r","e","o","v","e","r">>,
    <<"p","l","u","s">> }
\* HACKMIT.py can_tinyllama / can_huggingface: the math keywords
MATH_WORDS ==
  { <<"s","o","l","v","e">>,
    <<"i","n","t","e","g","r","a","t","e">>,
    <<"d","i","f","f","e","r","e","n","t","i","a","t","e">>,
    <<"d","e","r","i","v","a","t","i","v","e">>,
    <<"r","o","o","t","s">>,
    <<"l","i","m","i","t">>,
    <<"e","q","u","a","t","i","o","n">>,
    <<"s","y","s","t","e","m"," ","o","f"," ","e","q","u","a","t","i","o","n","s">>,
    <<"c","a","l","c","u","l","a","t","e">>,
    <<"f","i","n","d">>,
    <<"s","u","m">>,
    <<"p","r","o","d","u","c","t">>,
    <<"f","a","c","t","o","r","i","a","l">>,
    <<"p","r","i","m","e">>,
    <<"m","a","t","h">>,
    <<"n","u","m","b","e","r">> }
\* HACKMIT.py can_tinyllama / can_huggingface: the coding keywords
CODING_WORDS ==
  { <<"p","y","t","h","o","n">>,
    <<"j","a","v","a","s","c","r","i","p","t">>,
    <<"c","o","d","e">>,
    <<"f","u","n","c","t","i","o","n">>,
    <<"s","c","r","i","p","t">> }

(***************************************************************************)
(* Texts of the requests and of the provider outputs explored.             *)
(***************************************************************************)
P_BLANK ==
  <<" ">>
P_MATH ==
  <<"W","h","a","t"," ","i","s"," ","2","+","2","?">>
P_CALC ==
  <<"C","a","l","c","u","l","a","t","e"," ","t","h","e"," ","s","u","m">>
P_CODE ==
  <<"w","r","i","t","e"," ","p","y","t","h","o","n"," ","c","o","d","e">>
P_HELLO ==
  <<"H","e","l","l","o"," ","w","o","r","l","d","!">>
P_CATS ==
  <<"T","e","l","l"," ","m","e"," ","a","b","o","u","t"," ","c","a","t","s","!">>
P_POEM ==
  <<"A"," ","p","o","e","m"," ","a","b","o","u","t"," ","m","y"," ","c","a","t">>
P_WRITEPOEM ==
  <<"w","r","i","t","e"," ","a"," ","p","o","e","m">>
P_RENEW ==
  <<"I","s"," ","r","e","n","e","w","a","b","l","e"," ","e","n","e","r","g","y"," ","c","h","e",
    "a","p">>
P_CLIMATE ==
  <<"C","l","i","m","a","t","e"," ","c","h","a","n","g","e"," ","p","o","e","m">>
P_SUSTAIN ==
  <<"s","u","s","t","a","i","n","a","b","i","l","i","t","y">>
P_FOOTPRINT ==
  <<"m","y"," ","c","a","r","b","o","n"," ","f","o","o","t","p","r","i","n","t">>
P_DEEP ==
  <<"e","x","p","l","a","i","n"," ","t","h","e"," ","d","e","t","a","i","l","e","d"," ","a","l",
    "g","o","r","i","t","h","m">>

R_BLANK ==
  <<" ","\n">>
R_YES ==
  <<"Y","e","s",".">>
R_SKY ==
  <<"T","h","e"," ","s","k","y"," ","i","s"," ","b","l","u","e"," ","t","o","d","a","y",".">>
R_HELLO ==
  <<"h","e","l","l","o"," ","w","o","r","l","d">>
R_CATS ==
  <<"t","e","l","l"," ","m","e"," ","a","b","o","u","t"," ","c","a","t","s">>
R_BY ==
  <<"W","r","i","t","t","e","n"," ","b","y"," ","a"," ","m","o","d","e","l">>
R_WRITEPOEM ==
  <<"I"," ","c","a","n"," ","w","r","i","t","e"," ","a"," ","p","o","e","m">>
R_CATSNOW ==
  <<"T","h","e"," ","c","a","t"," ","s","a","t"," ","o","n"," ","s","n","o","w">>
R_SUN ==
  <<"1","."," ","S","u","n","\n","2","."," ","S","u","n","\n","M","o","o","n">>
R_DUP ==
  <<" ","1","."," ","T","h","e"," ","s","u","n"," ","i","s"," ","h","o","t","\n","2",")"," ",
    "T","h","e"," ","s","u","n"," ","i","s"," ","h","o","t","\n","\n","T","h","e"," ","s","u",
    "n"," ","i","s"," ","h","o","t"," ">>

E_TIMEOUT ==
  <<"t","i","m","e","o","u","t">>
E_REFUSED ==
  <<"r","e","f","u","s","e","d"," ","b","y"," ","h","o","s","t">>

(***************************************************************************)
(* Python's string operations, on sequences of characters.                 *)
(***************************************************************************)
\* str.lower, one character
lower_map == [c \in Range(UpperCase) |-> LowerCase[CHOOSE i \in DOMAIN UpperCase : UpperCase[i] = c]]

lower_char(c) == IF c \in DOMAIN lower_map THEN lower_map[c] ELSE c

\* str.lower
lower(s) == [i \in 1..Len(s) |-> lower_char(s[i])]

\* str.strip: drops the leading and the trailing whitespace
strip(s) ==
  IF \A i \in 1..Len(s) : s[i] \in Whitespace THEN <<>>
  ELSE SubSeq(s,
         CHOOSE i \in 1..Len(s) :
           s[i] \notin Whitespace /\ \A j \in 1..(i-1) : s[j] \in Whitespace,
         CHOOSE i \in 1..Len(s) :
           s[i] \notin Whitespace /\ \A j \in (i+1)..Len(s) : s[j] \in Whitespace)

\* len(s.split()): the number of maximal runs of non-whitespace characters
len_split(s) ==
  Cardinality({i \in 1..Len(s) :
                 /\ s[i] \notin Whitespace
                 /\ (i = 1 \/ s[i-1] \in Whitespace)})

\* `sub in s`
contains(sub, s) ==
  \E i \in 1..(Len(s) - Len(sub) + 1) :
    \A j \in 1..Len(sub) : s[i + j - 1] = sub[j]

\* re.search(r"\b(w1|w2|...)\b", s): some keyword occurs as a whole word.
\* Every keyword starts and ends with a word character, so \b holds next to
\* it exactly when the neighbouring character is missing or is not \w.
re_search_words(words, s) ==
  \E w \in words :
    \E i \in 1..(Len(s) - Len(w) + 1) :
      /\ \A j \in 1..Len(w) : s[i + j - 1] = w[j]
      /\ (i = 1 \/ s[i-1] \notin WordChars)
      /\ (i + Len(w) > Len(s) \/ s[i + Len(w)] \notin WordChars)

\* re.sub(r'[^\w\s]', '', s): drops what is neither \w nor whitespace
sub_punctuation(s) ==
  LET keep(c) == c \in WordChars \/ c \in Whitespace
  IN  SelectSeq(s, keep)

\* s.split('\n'): the lines of s, at least one
split_lines(s) ==
  LET breaks == {i \in 1..Len(s) : s[i] = "\n"}
      nth(k) == IF k = 0 THEN 0
                ELSE IF k > Cardinality(breaks) THEN Len(s) + 1
                ELSE CHOOSE p \in breaks : Cardinality({q \in breaks : q < p}) = k - 1
  IN  [k \in 1..(Cardinality(breaks) + 1) |-> SubSeq(s, nth(k-1) + 1, nth(k) - 1)]

\* '\n'.join(lines)
RECURSIVE join_lines(_)
join_lines(lines) ==
  IF lines = <<>> THEN <<>>
  ELSE IF Len(lines) = 1 THEN lines[1]
  ELSE lines[1] \o <<"\n">> \o join_lines(Tail(lines))

\* re.sub(r'^\d+[\.\)]\s*', '', line): drops a leading enumeration marker
sub_marker(line) ==
  LET nd == Cardinality({i \in 1..Len(line) : \A j \in 1..i : line[j] \in Digits})
      marked == nd >= 1 /\ nd < Len(line) /\ line[nd + 1] \in {".", ")"}
      ns == Cardinality({i \in (nd + 2)..Len(line) :
                           \A j \in (nd + 2)..i : line[j] \in Whitespace})
  IN  IF marked THEN SubSeq(line, nd + 2 + ns, Len(line)) ELSE line

\* preprocess_prompt
preprocess_prompt(prompt) == strip(prompt)

\* dedup_loop that appends the line without its marker
RECURSIVE dedup_loop_unmarked(_, _, _, _)
dedup_loop_unmarked(lines, k, seen, result) ==
  IF k > Len(lines) THEN result
  ELSE LET line_clean == sub_marker(strip(lines[k]))
       IN  IF line_clean # <<>> /\ line_clean \notin seen
             THEN dedup_loop_unmarked(lines, k + 1, seen \cup {line_clean},
                                      Append(result, line_clean))
             ELSE dedup_loop_unmarked(lines, k + 1, seen, result)

\* remove_duplicate_lines: the for loop, from line k on, with the set seen
\* and the list result
RECURSIVE dedup_loop(_, _, _, _)
dedup_loop(lines, k, seen, result) ==
  IF k > Len(lines) THEN result
  ELSE LET line_clean == sub_marker(strip(lines[k]))
       IN  IF line_clean # <<>> /\ line_clean \notin seen
             THEN dedup_loop(lines, k + 1, seen \cup {line_clean},
                             Append(result, strip(lines[k])))
             ELSE dedup_loop(lines, k + 1, seen, result)

\* remove_duplicate_lines
remove_duplicate_lines(text) == join_lines(dedup_loop(split_lines(text), 1, {}, <<>>))

(***************************************************************************)
(* Providers.                                                              *)
(***************************************************************************)
\* app.py query_prompt: all_models, in routing order
all_models == <<"simple", "ollama", "huggingface", "claude">>

\* HACKMIT.py query_prompt: the providers, in routing order
hackmit_models == <<"tinyllama", "huggingface", "claude">>

\* Python's None (JSON null), as a model id and as a carbon figure
None == "None"
NoCarbon == 0 - 1

\* query_simple: the canned responder
query_simple(prompt) ==
  LET prompt_lower == lower(prompt)
  IN  IF contains(KW_RENEWABLE, prompt_lower) THEN RENEWABLE_ANSWER
      ELSE IF contains(KW_CLIMATE, prompt_lower) THEN CLIMATE_ANSWER
      ELSE IF contains(KW_SUSTAINABILITY, prompt_lower) THEN SUSTAINABILITY_ANSWER
      ELSE IF contains(KW_FOOTPRINT, prompt_lower) THEN FOOTPRINT_ANSWER
      ELSE DEFAULT_ANSWER_HEAD \o prompt \o DEFAULT_ANSWER_TAIL

(***************************************************************************)
(* Capability gates.                                                       *)
(***************************************************************************)
SimpleTokenLimit == 50
TinyTokenLimit == 30
HfTokenLimit == 60

\* app.py
can_simple(prompt) == len_split(prompt) < SimpleTokenLimit

can_ollama(prompt) == TRUE

can_huggingface(prompt) == TRUE

can_claude(prompt) == TRUE

\* HACKMIT.py
can_tinyllama(prompt) ==
  IF len_split(prompt) > TinyTokenLimit THEN FALSE
  ELSE IF re_search_words(MATH_WORDS, lower(prompt)) THEN FALSE
  ELSE IF re_search_words(CODING_WORDS, lower(prompt)) THEN FALSE
  ELSE TRUE

hackmit_can_huggingface(prompt) ==
  IF re_search_words(CODING_WORDS, lower(prompt)) THEN TRUE
  ELSE IF re_search_words(MATH_WORDS, lower(prompt)) THEN TRUE
  ELSE IF len_split(prompt) <= HfTokenLimit THEN TRUE
  ELSE FALSE

hackmit_can_claude(prompt) == TRUE

\* the gate of a provider of app.py
gate(model, prompt) ==
  CASE model = "simple" -> can_simple(prompt)
    [] model = "ollama" -> can_ollama(prompt)
    [] model = "huggingface" -> can_huggingface(prompt)
    [] model = "claude" -> can_claude(prompt)

\* the gate of a provider of HACKMIT.py
hackmit_gate(model, prompt) ==
  CASE model = "tinyllama" -> can_tinyllama(prompt)
    [] model = "huggingface" -> hackmit_can_huggingface(prompt)
    [] model = "claude" -> hackmit_can_claude(prompt)

\* list.append, when the condition holds
append_if(order, cond, model) == IF cond THEN Append(order, model) ELSE order

\* model_order_of with the lowest tier appended whatever its gate says
model_order_ungated(prompt, suggested_model) ==
  IF suggested_model # None /\ suggested_model # ""
       /\ suggested_model \in Range(all_models)
    THEN <<suggested_model>>
    ELSE LET o1 == <<"simple">>
             o2 == append_if(o1, can_ollama(prompt), "ollama")
             o3 == append_if(o2, can_huggingface(prompt), "huggingface")
         IN  append_if(o3, can_claude(prompt), "claude")

\* model_order_of without the test that the forced id is a known one
model_order_unchecked(prompt, suggested_model) ==
  IF suggested_model # None /\ suggested_model # ""
    THEN <<suggested_model>>
    ELSE LET o1 == append_if(<<>>, can_simple(prompt), "simple")
             o2 == append_if(o1, can_ollama(prompt), "ollama")
             o3 == append_if(o2, can_huggingface(prompt), "huggingface")
         IN  append_if(o3, can_claude(prompt), "claude")

\* app.py query_prompt: the routing order
model_order_of(prompt, suggested_model) ==
  IF suggested_model # None /\ suggested_model # ""
       /\ suggested_model \in Range(all_models)
    THEN <<suggested_model>>
    ELSE LET o1 == append_if(<<>>, can_simple(prompt), "simple")
             o2 == append_if(o1, can_ollama(prompt), "ollama")
             o3 == append_if(o2, can_huggingface(prompt), "huggingface")
         IN  append_if(o3, can_claude(prompt), "claude")

\* HACKMIT.py query_prompt: the routing order
hackmit_model_order_of(prompt) ==
  LET o1 == append_if(<<>>, can_tinyllama(prompt), "tinyllama")
      o2 == append_if(o1, hackmit_can_huggingface(prompt), "huggingface")
  IN  append_if(o2, hackmit_can_claude(prompt), "claude")

(***************************************************************************)
(* Quality filter.                                                         *)
(***************************************************************************)
MinWords == 4

is_blank(s) == s = <<>> \/ strip(s) = <<>>

\* is_unhelpful_response without the word-count rule
is_unhelpful_any_length(prompt, response) ==
  IF is_blank(response) THEN TRUE
  ELSE IF sub_punctuation(lower(strip(response))) = sub_punctuation(lower(strip(prompt)))
    THEN TRUE
  ELSE IF contains(W_WRITE, lower(response)) /\ contains(W_POEM, lower(response))
    THEN TRUE
  ELSE IF LET all_lines == split_lines(response)
              lines == {strip(all_lines[k]) : k \in {j \in DOMAIN all_lines :
                                                       strip(all_lines[j]) # <<>>}}
          IN  lines # {} /\ \A line \in lines : contains(W_BY, lower(line))
    THEN TRUE
  ELSE IF contains(W_POEM, lower(prompt))
            /\ ~ \E word \in {W_CAT, W_SNOW} : contains(word, lower(response))
    THEN TRUE
  ELSE FALSE

is_unhelpful_response(prompt, response) ==
  IF is_blank(response) THEN TRUE
  ELSE IF sub_punctuation(lower(strip(response))) = sub_punctuation(lower(strip(prompt)))
    THEN TRUE
  ELSE IF contains(W_WRITE, lower(response)) /\ contains(W_POEM, lower(response))
    THEN TRUE
  ELSE IF len_split(strip(response)) < MinWords THEN TRUE
  ELSE IF LET all_lines == split_lines(response)
              lines == {strip(all_lines[k]) : k \in {j \in DOMAIN all_lines :
                                                       strip(all_lines[j]) # <<>>}}
          IN  lines # {} /\ \A line \in lines : contains(W_BY, lower(line))
    THEN TRUE
  ELSE IF contains(W_POEM, lower(prompt))
            /\ ~ \E word \in {W_CAT, W_SNOW} : contains(word, lower(response))
    THEN TRUE
  ELSE FALSE

(***************************************************************************)
(* Carbon estimate.  Energy per token is kept in units of 1e-7 kWh, and    *)
(* the estimate in micrograms of CO2: round(e * 0.4 * 1000 * tokens, 6)    *)
(* grams is a whole number of micrograms, e * 40 * tokens.                 *)
(***************************************************************************)
EnergySimple == 1
EnergyOllama == 12
EnergyHuggingface == 15
EnergyClaude == 20
EnergyDefault == 20
HackmitEnergyTinyllama == 5
HackmitEnergyHuggingface == 1
HackmitEnergyClaude == 20
MicrogramsPerUnit == 40

\* app.py get_carbon_footprint: energy_per_token.get(model, 0.000002)
energy_per_token(model) ==
  CASE model = "simple" -> EnergySimple
    [] model = "claude" -> EnergyClaude
    [] model = "huggingface" -> EnergyHuggingface
    [] model = "ollama" -> EnergyOllama
    [] OTHER -> EnergyDefault

\* HACKMIT.py get_carbon_footprint: energy_per_token[model]
hackmit_energy_per_token(model) ==
  CASE model = "tinyllama" -> HackmitEnergyTinyllama
    [] model = "huggingface" -> HackmitEnergyHuggingface
    [] model = "claude" -> HackmitEnergyClaude

get_carbon_footprint(model, tokens_used) ==
  energy_per_token(model) * MicrogramsPerUnit * tokens_used

hackmit_get_carbon_footprint(model, tokens_used) ==
  hackmit_energy_per_token(model) * MicrogramsPerUnit * tokens_used

(***************************************************************************)
(* Tier suggestion.                                                        *)
(***************************************************************************)
WeightReasoning == 2
WeightTechnical == 3
WeightCreative == 3
WeightQuantitative == 3
WeightProcedural == 2
WeightElaboration == 4
WeightConjunction == 1
LengthStep1 == 50
LengthBonus1 == 1
LengthStep2 == 100
LengthBonus2 == 2
BandSimple == 3
BandOllama == 5
BandHuggingface == 7

weight_if(words, prompt, weight) ==
  IF re_search_words(words, lower(prompt)) THEN weight ELSE 0

\* suggest_optimal_model: the length bonus (an if / elif chain)
length_bonus(token_count) ==
  IF token_count > LengthStep1 THEN LengthBonus1
  ELSE IF token_count > LengthStep2 THEN LengthBonus2
  ELSE 0

\* suggest_optimal_model: the complexity score
complexity_score(prompt) ==
  weight_if(REASONING_WORDS, prompt, WeightReasoning)
  + weight_if(TECHNICAL_WORDS, prompt, WeightTechnical)
  + weight_if(CREATIVE_WORDS, prompt, WeightCreative)
  + weight_if(QUANTITATIVE_WORDS, prompt, WeightQuantitative)
  + weight_if(PROCEDURAL_WORDS, prompt, WeightProcedural)
  + weight_if(ELABORATION_WORDS, prompt, WeightElaboration)
  + weight_if(CONJUNCTION_WORDS, prompt, WeightConjunction)
  + length_bonus(len_split(preprocess_prompt(prompt)))

\* suggest_optimal_model without the gate test of the lowest band
suggest_ungated(prompt) ==
  LET score == complexity_score(prompt)
  IN  IF score <= BandSimple
        THEN [suggested_model |-> "simple", confidence |-> "high",
              carbon_savings |-> "95%"]
      ELSE IF score <= BandOllama /\ can_ollama(prompt)
        THEN [suggested_model |-> "ollama", confidence |-> "medium",
              carbon_savings |-> "80%"]
      ELSE IF score <= BandHuggingface /\ can_huggingface(prompt)
        THEN [suggested_model |-> "huggingface", confidence |-> "medium",
              carbon_savings |-> "60%"]
      ELSE [suggested_model |-> "claude", confidence |-> "high",
            carbon_savings |-> "0%"]

\* suggest_optimal_model: the band chain
suggest_optimal_model(prompt) ==
  LET score == complexity_score(prompt)
  IN  IF score <= BandSimple /\ can_simple(prompt)
        THEN [suggested_model |-> "simple", confidence |-> "high",
              carbon_savings |-> "95%"]
      ELSE IF score <= BandOllama /\ can_ollama(prompt)
        THEN [suggested_model |-> "ollama", confidence |-> "medium",
              carbon_savings |-> "80%"]
      ELSE IF score <= BandHuggingface /\ can_huggingface(prompt)
        THEN [suggested_model |-> "huggingface", confidence |-> "medium",
              carbon_savings |-> "60%"]
      ELSE [suggested_model |-> "claude", confidence |-> "high",
            carbon_savings |-> "0%"]

(***************************************************************************)
(* Inputs: the requests and the provider outputs the model explores.       *)
(***************************************************************************)
\* how far around each token threshold of the program the prompt lengths go
Around == 1

\* the token counts the gates and the length bonus compare with
Thresholds == {TinyTokenLimit, SimpleTokenLimit, HfTokenLimit, LengthStep2}

\* n words "a", separated by single spaces
pad(n) == [i \in 1..(2 * n - 1) |-> IF i % 2 = 1 THEN "a" ELSE " "]

\* head, padded to n words in all
padded(head, n) ==
  IF head = <<>> THEN pad(n) ELSE head \o <<" ">> \o pad(n - len_split(head))

ShortPrompts ==
  { P_BLANK, P_MATH, P_CALC, P_CODE, P_HELLO, P_CATS, P_POEM, P_WRITEPOEM,
    P_RENEW, P_CLIMATE, P_SUSTAIN, P_FOOTPRINT, P_DEEP }

LongPrompts ==
  { padded(head, t + d) :
      head \in {<<>>, P_CALC}, t \in Thresholds, d \in (0 - Around)..Around }

\* request.get_json()['query'] of a request that carries one
Queries == ShortPrompts \cup LongPrompts

\* request.get_json().get('suggested_model')
SuggestedModels == {None, "", "simple", "ollama", "huggingface", "claude", "gpt-4"}

\* what a generative backend may produce
GeneratedTexts ==
  { <<>>, R_BLANK, R_YES, R_SKY, R_HELLO, R_CATS, R_BY, R_WRITEPOEM, R_CATSNOW,
    R_SUN, R_DUP }

\* str(e) / response.text of a failed call
ErrorDetails == { <<>>, E_TIMEOUT, E_REFUSED }

(***************************************************************************)
(* Provider adapters: the set of outcomes of one call.  failed marks a     *)
(* call that raised, timed out or was answered with a non-200 status;      *)
(* raised marks an exception that leaves the adapter.                      *)
(***************************************************************************)
returned(text) == [text |-> text, failed |-> FALSE, raised |-> FALSE]
error_text(text) == [text |-> text, failed |-> TRUE, raised |-> FALSE]
exception == [text |-> <<>>, failed |-> TRUE, raised |-> TRUE]

\* app.py query_claude
query_claude ==
  { returned(remove_duplicate_lines(strip(t))) : t \in GeneratedTexts }
  \cup { error_text(CLAUDE_ERROR \o e) : e \in ErrorDetails }

\* app.py query_huggingface
query_huggingface ==
  { returned(t) : t \in GeneratedTexts }
  \cup { error_text(HF_ERROR \o e) : e \in ErrorDetails }

\* app.py query_ollama
query_ollama ==
  { returned(t) : t \in GeneratedTexts }
  \cup { error_text(OLLAMA_ERROR \o e) : e \in ErrorDetails }

\* app.py query_prompt: the dispatch on the provider id, an if / elif chain
\* without else: for any other id, response keeps its previous value
call_model(model, p, previous) ==
  CASE model = "simple" -> { returned(query_simple(p)) }
    [] model = "claude" -> query_claude
    [] model = "huggingface" -> query_huggingface
    [] model = "ollama" -> query_ollama
    [] OTHER -> { returned(previous) }

\* HACKMIT.py query_tinyllama
query_tinyllama ==
  { returned(remove_duplicate_lines(strip(t))) : t \in GeneratedTexts }

\* HACKMIT.py query_huggingface
hackmit_query_huggingface ==
  { returned(remove_duplicate_lines(strip(t))) : t \in GeneratedTexts }

\* HACKMIT.py query_claude: no try / except around the API call
hackmit_query_claude ==
  { returned(remove_duplicate_lines(strip(t))) : t \in GeneratedTexts }
  \cup { exception }

\* HACKMIT.py query_prompt: the dispatch on the provider id
hackmit_call_model(model, previous) ==
  CASE model = "tinyllama" -> query_tinyllama
    [] model = "huggingface" -> hackmit_query_huggingface
    [] model = "claude" -> hackmit_query_claude
    [] OTHER -> { returned(previous) }

(***************************************************************************)
(* State.  One request at a time: the handlers share no mutable state, so  *)
(* concurrent requests do not interact.  pc is the position of the request *)
(* being served; calls is the history of its provider calls.               *)
(***************************************************************************)
VARIABLES
  pc,               \* "idle", "loop", "after_loop", "done", "rejected", "suggested", "raised"
  impl,             \* "app" (python_backend/app.py), "hackmit" (HACKMIT.py) or "none"
  prompt,           \* query_prompt: prompt
  suggested_model,  \* query_prompt: suggested_model
  token_count,      \* query_prompt: token_count
  model_order,      \* query_prompt: model_order
  idx,              \* the position of the for loop in model_order
  response,         \* query_prompt: response
  model_choice,     \* query_prompt: model_choice
  carbon_grams,     \* query_prompt: carbon_grams, in micrograms
  status,           \* the HTTP status of the reply, 0 before it and outside HTTP
  result,           \* the dict query_prompt returns
  suggestion,       \* the dict suggest_optimal_model returns
  calls,            \* the provider calls of this request, in order
  last_output,      \* the text the latest provider call returned
  post_text,        \* remove_duplicate_lines on its own: the text given to it
  post_outputs      \* what it returned, pass after pass on its own output

vars ==
  <<pc, impl, prompt, suggested_model, token_count, model_order, idx, response,
    model_choice, carbon_grams, status, result, suggestion, calls, last_output,
    post_text, post_outputs>>

\* the state of the postprocessor taken on its own
post == <<post_text, post_outputs>>

\* the state of the request being served
request ==
  <<pc, impl, prompt, suggested_model, token_count, model_order, idx, response,
    model_choice, carbon_grams, status, result, suggestion, calls, last_output>>

NoResult == [returned |-> FALSE]
NoSuggestion == [suggested_model |-> None]

\* no request is being served
no_request ==
  /\ pc = "idle"
  /\ impl = "none"
  /\ prompt = <<>>
  /\ suggested_model = None
  /\ token_count = 0
  /\ model_order = <<>>
  /\ idx = 0
  /\ response = <<>>
  /\ model_choice = None
  /\ carbon_grams = NoCarbon
  /\ status = 0
  /\ result = NoResult
  /\ suggestion = NoSuggestion
  /\ calls = <<>>
  /\ last_output = <<>>

Init ==
  /\ no_request
  /\ post_text = <<>>
  /\ post_outputs = <<>>

\* query_prompt, up to the for loop
enter_query_prompt(which, p, sm, order) ==
  /\ impl' = which
  /\ prompt' = p
  /\ suggested_model' = sm
  /\ token_count' = len_split(preprocess_prompt(p))
  /\ model_order' = order
  /\ idx' = 1
  /\ response' = <<>>
  /\ model_choice' = None
  /\ carbon_grams' = NoCarbon
  /\ pc' = IF order = <<>> THEN "after_loop" ELSE "loop"
  /\ UNCHANGED <<status, result, suggestion, calls, last_output>>

\* loop_iteration without the break on an accepted response
loop_iteration_no_break(out, carbon) ==
  LET model == model_order[idx]
      unhelpful == is_unhelpful_response(prompt, out.text)
  IN  /\ calls' = Append(calls, [model |-> model, failed |-> out.failed,
                                 accepted |-> ~unhelpful])
      /\ response' = out.text
      /\ last_output' = out.text
      /\ IF ~unhelpful
           THEN /\ model_choice' = model
                /\ carbon_grams' = carbon
           ELSE UNCHANGED <<model_choice, carbon_grams>>
      /\ idx' = idx + 1
      /\ pc' = IF idx < Len(model_order) THEN "loop" ELSE "after_loop"
      /\ UNCHANGED <<impl, prompt, suggested_model, token_count, model_order, status,
                     result, suggestion>>

\* one iteration of the for loop of query_prompt: the call of the provider
\* at idx, with outcome out, and the quality check of its response
loop_iteration(out, carbon) ==
  LET model == model_order[idx]
      unhelpful == is_unhelpful_response(prompt, out.text)
  IN  /\ calls' = Append(calls, [model |-> model, failed |-> out.failed,
                                 accepted |-> ~unhelpful])
      /\ response' = out.text
      /\ last_output' = out.text
      /\ IF ~unhelpful
           THEN /\ model_choice' = model
                /\ carbon_grams' = carbon
                /\ idx' = idx
                /\ pc' = "after_loop"
           ELSE /\ UNCHANGED <<model_choice, carbon_grams>>
                /\ idx' = idx + 1
                /\ pc' = IF idx < Len(model_order) THEN "loop" ELSE "after_loop"
      /\ UNCHANGED <<impl, prompt, suggested_model, token_count, model_order, status,
                     result, suggestion>>

\* query_prompt, after the for loop: the apology and the returned dict, which
\* has the keys of extra besides the common ones
return_result(http, extra) ==
  LET empty == is_blank(response)
      final_response == IF empty THEN APOLOGY ELSE response
      final_model == IF empty THEN "none" ELSE model_choice
      final_carbon == IF empty THEN 0 ELSE carbon_grams
  IN  /\ response' = final_response
      /\ model_choice' = final_model
      /\ carbon_grams' = final_carbon
      /\ result' = [returned |-> TRUE,
                    prompt |-> prompt,
                    response |-> final_response,
                    model_used |-> final_model,
                    tokens_used |-> token_count,
                    carbon_footprint_grams |-> final_carbon] @@ extra
      /\ status' = http
      /\ pc' = "done"
      /\ UNCHANGED <<impl, prompt, suggested_model, token_count, model_order, idx,
                     suggestion, calls, last_output>>

(***************************************************************************)
(* python_backend/app.py                                                   *)
(***************************************************************************)
\* POST /api/query without a query: 400
api_query_rejected ==
  /\ UNCHANGED post
  /\ pc = "idle"
  /\ \E sm \in SuggestedModels :
       /\ impl' = "app"
       /\ suggested_model' = sm
       /\ status' = 400
       /\ pc' = "rejected"
       /\ UNCHANGED <<prompt, token_count, model_order, idx, response, model_choice,
                      carbon_grams, result, suggestion, calls, last_output>>

\* POST /api/query with a query: query_prompt starts
api_query ==
  /\ UNCHANGED post
  /\ pc = "idle"
  /\ \E query \in Queries, sm \in SuggestedModels :
       enter_query_prompt("app", query, sm, model_order_of(query, sm))

\* query_prompt: one provider call
query_prompt_call ==
  /\ UNCHANGED post
  /\ pc = "loop"
  /\ impl = "app"
  /\ \E out \in call_model(model_order[idx], prompt, response) :
       loop_iteration(out, get_carbon_footprint(model_order[idx], token_count))

\* query_prompt returns and api_query replies 200
query_prompt_return ==
  /\ UNCHANGED post
  /\ pc = "after_loop"
  /\ impl = "app"
  /\ return_result(200, [preference |-> "auto-suggested"])

\* POST /api/suggest-model
api_suggest_model ==
  /\ UNCHANGED post
  /\ pc = "idle"
  /\ \E query \in Queries \cup {<<>>} :
       /\ impl' = "app"
       /\ prompt' = query
       /\ IF query = <<>>
            THEN /\ status' = 400
                 /\ pc' = "rejected"
                 /\ UNCHANGED suggestion
            ELSE /\ status' = 200
                 /\ pc' = "suggested"
                 /\ suggestion' = suggest_optimal_model(query)
       /\ UNCHANGED <<suggested_model, token_count, model_order, idx, response,
                      model_choice, carbon_grams, result, calls, last_output>>

(***************************************************************************)
(* HACKMIT.py                                                              *)
(***************************************************************************)
\* query_prompt starts.  The script's only caller, its Streamlit form, is
\* commented out; it submitted a prompt when user_prompt.strip() was not empty.
hackmit_query_prompt ==
  /\ UNCHANGED post
  /\ pc = "idle"
  /\ \E p \in {q \in Queries : ~ is_blank(q)} :
       enter_query_prompt("hackmit", p, None, hackmit_model_order_of(p))

\* query_prompt: one provider call; an exception of the call leaves query_prompt
hackmit_query_prompt_call ==
  /\ UNCHANGED post
  /\ pc = "loop"
  /\ impl = "hackmit"
  /\ \E out \in hackmit_call_model(model_order[idx], response) :
       IF out.raised
         THEN /\ calls' = Append(calls, [model |-> model_order[idx], failed |-> TRUE,
                                         accepted |-> FALSE])
              /\ pc' = "raised"
              /\ UNCHANGED <<impl, prompt, suggested_model, token_count, model_order,
                             idx, response, model_choice, carbon_grams, status, result,
                             suggestion, last_output>>
         ELSE loop_iteration(out, hackmit_get_carbon_footprint(model_order[idx],
                                                               token_count))

\* query_prompt returns
hackmit_query_prompt_return ==
  /\ UNCHANGED post
  /\ pc = "after_loop"
  /\ impl = "hackmit"
  /\ return_result(0, <<>>)

\* the request is over; the next one starts from scratch
next_request ==
  /\ UNCHANGED post
  /\ pc \in {"done", "rejected", "suggested", "raised"}
  /\ pc' = "idle"
  /\ impl' = "none"
  /\ prompt' = <<>>
  /\ suggested_model' = None
  /\ token_count' = 0
  /\ model_order' = <<>>
  /\ idx' = 0
  /\ response' = <<>>
  /\ model_choice' = None
  /\ carbon_grams' = NoCarbon
  /\ status' = 0
  /\ result' = NoResult
  /\ suggestion' = NoSuggestion
  /\ calls' = <<>>
  /\ last_output' = <<>>

Next ==
  \/ api_query_rejected
  \/ api_query
  \/ query_prompt_call
  \/ query_prompt_return
  \/ api_suggest_model
  \/ hackmit_query_prompt
  \/ hackmit_query_prompt_call
  \/ hackmit_query_prompt_return
  \/ next_request

Spec == Init /\ [][Next]_vars

TypeOK ==
  /\ pc \in {"idle", "loop", "after_loop", "done", "rejected", "suggested", "raised"}
  /\ impl \in {"none", "app", "hackmit"}
  /\ idx \in 0..(Len(model_order) + 1)
  /\ token_count \in Nat
  /\ Len(calls) <= Len(model_order)

(***************************************************************************)
(* Properties.                                                             *)
(***************************************************************************)
ProviderIds == Range(all_models) \cup Range(hackmit_models)

Routing == pc \in {"loop", "after_loop", "done", "raised"}

\* the providers called so far, in call order
invoked == [i \in DOMAIN calls |-> calls[i].model]

\* the routing order was tried to its end and the quality filter rejected
\* every response, those of failed calls included
Exhausted ==
  /\ pc = "done"
  /\ Len(calls) = Len(model_order)
  /\ \A i \in DOMAIN calls : ~ calls[i].accepted

\* C1: when route ends with every provider of its routing order rejected or
\* failed, the result carries the apology, the model "none" and a carbon
\* figure of 0: no missing model or carbon figure, no rejected text.
C1_ExhaustedGivesApology ==
  Exhausted =>
    /\ result.response = APOLOGY
    /\ result.model_used = "none"
    /\ result.carbon_footprint_grams = 0

\* C2: a failed adapter call is a failed attempt: its error text is never
\* accepted, and the failed provider is never reported as the model used.
C2_FailedCallNeverAccepted ==
  \A i \in DOMAIN calls :
    calls[i].failed =>
      /\ ~ calls[i].accepted
      /\ (pc = "done" => result.model_used # calls[i].model)

\* the routing order the gates give: the eligible providers, in the fixed order
gate_order(which, p) ==
  IF which = "app"
    THEN LET eligible(m) == gate(m, p) IN SelectSeq(all_models, eligible)
    ELSE LET eligible(m) == hackmit_gate(m, p) IN SelectSeq(hackmit_models, eligible)

\* the routing order of a request: the forced provider when its id is known
routing_order(which, p, forced) ==
  IF which = "app" /\ forced \in Range(all_models) THEN <<forced>>
  ELSE gate_order(which, p)

\* C3: the providers called within one request are a prefix of the routing
\* order, called in that order, none twice and none after the first
\* response the quality filter accepts.
C3_CallsArePrefixOfOrder ==
  Routing =>
    /\ model_order = routing_order(impl, prompt, suggested_model)
    /\ Len(invoked) <= Len(model_order)
    /\ invoked = SubSeq(model_order, 1, Len(invoked))
    /\ \A i, j \in DOMAIN invoked : invoked[i] = invoked[j] => i = j
    /\ \A i \in DOMAIN calls : calls[i].accepted => i = Len(calls)
    /\ pc = "loop" => idx = Len(calls) + 1

C3_Witness ==
  /\ pc = "done"
  /\ impl = "app"
  /\ suggested_model = None
  /\ invoked = <<"simple", "ollama", "huggingface", "claude">>
  /\ calls[4].accepted
  /\ result.model_used = "claude"

\* the energy coefficient of a provider in the table of the running program
coefficient(which, model) ==
  IF which = "app" THEN energy_per_token(model) ELSE hackmit_energy_per_token(model)

\* C4: providers are tried from cheapest to most expensive: a provider
\* tried before another has an energy coefficient no larger than the other's.
C4_CheapestFirst ==
  \A i, j \in DOMAIN invoked :
    i < j => coefficient(impl, invoked[i]) <= coefficient(impl, invoked[j])

\* C5: without a forced provider, the routing order built from the gates is
\* not empty, has no duplicates, holds exactly the providers whose gate
\* accepts the prompt, and ends with the top tier, claude.
C5_GateOrderWellFormed ==
  (Routing /\ suggested_model = None) =>
    /\ model_order # <<>>
    /\ \A i, j \in DOMAIN model_order : model_order[i] = model_order[j] => i = j
    /\ Range(model_order) =
         IF impl = "app" THEN {m \in Range(all_models) : gate(m, prompt)}
         ELSE {m \in Range(hackmit_models) : hackmit_gate(m, prompt)}
    /\ model_order[Len(model_order)] = "claude"

C5_Witness ==
  /\ pc = "loop"
  /\ impl = "app"
  /\ suggested_model = None
  /\ ~ can_simple(prompt)
  /\ model_order = <<"ollama", "huggingface", "claude">>

\* the lowest tier of the running program
lowest_tier(which) == IF which = "app" THEN all_models[1] ELSE hackmit_models[1]

\* a coding or quantitative request: the request "What is 2+2?", or one
\* with a coding or math keyword
coding_or_quantitative(p) ==
  \/ p = P_MATH
  \/ re_search_words(MATH_WORDS \cup CODING_WORDS \cup QUANTITATIVE_WORDS, lower(p))

\* C6: the gate of the lowest tier rejects a coding or quantitative prompt,
\* so route does not report the lowest tier as the model used for it.
C6_LowestTierSkipsQuantitative ==
  (Routing /\ suggested_model = None /\ coding_or_quantitative(prompt)) =>
    /\ \A i \in DOMAIN model_order : model_order[i] # lowest_tier(impl)
    /\ (pc = "done" => result.model_used # lowest_tier(impl))

\* C7: a prompt that is empty, also after trimming, is rejected as empty
\* input: it is not routed and no provider is called for it.
C7_EmptyPromptNotRouted ==
  (impl = "app" /\ preprocess_prompt(prompt) = <<>>) =>
    /\ ~ Routing
    /\ calls = <<>>
    /\ result = NoResult

\* C8: a forced provider id that is not a known id does not fail the
\* request: the request takes the routing order the gates give the prompt, as
\* a request without forced provider does.
C8_UnknownForcedIdFallsBack ==
  (impl = "app" /\ suggested_model \notin Range(all_models)) =>
    /\ pc # "raised"
    /\ Routing =>
         /\ model_order = gate_order("app", prompt)
         /\ invoked = SubSeq(gate_order("app", prompt), 1, Len(invoked))
    /\ pc = "done" => result.returned /\ status = 200

C8_Witness ==
  /\ pc = "done"
  /\ impl = "app"
  /\ suggested_model = "gpt-4"
  /\ invoked = <<"ollama", "huggingface">>
  /\ result.model_used = "huggingface"

\* C9: a provider id is reported as the model used only with that provider's
\* own response, which is not blank, is not an echo of the prompt (equal to it
\* once punctuation and case are dropped) and has at least 4 words.
C9_ReportedModelPassedFilter ==
  (pc = "done" /\ result.model_used \in ProviderIds) =>
    /\ calls # <<>>
    /\ calls[Len(calls)].model = result.model_used
    /\ calls[Len(calls)].accepted
    /\ result.response = last_output
    /\ ~ is_blank(result.response)
    /\ sub_punctuation(lower(strip(result.response)))
         # sub_punctuation(lower(strip(result.prompt)))
    /\ len_split(result.response) >= MinWords

C9_Witness ==
  /\ pc = "done"
  /\ result.model_used = "huggingface"
  /\ Len(calls) = 2
  /\ ~ calls[1].accepted
  /\ result.response = R_SKY

\* the position in all_models of the tier of the band a score falls in
band_tier(score) ==
  IF score <= BandSimple THEN 1
  ELSE IF score <= BandOllama THEN 2
  ELSE IF score <= BandHuggingface THEN 3
  ELSE 4

\* C10: the suggestion is a provider whose gate accepts the prompt: the
\* first eligible tier from the tier of the score's band upwards, the top
\* tier at the latest; and suggesting calls no provider.
C10_SuggestionIsEligible ==
  pc = "suggested" =>
    LET from == band_tier(complexity_score(prompt))
        eligible == {k \in from..Len(all_models) : gate(all_models[k], prompt)}
    IN  /\ suggestion.suggested_model \in Range(all_models)
        /\ gate(suggestion.suggested_model, prompt)
        /\ eligible # {}
        /\ suggestion.suggested_model =
             all_models[CHOOSE k \in eligible : \A l \in eligible : k <= l]
        /\ calls = <<>>
        /\ result = NoResult

C10_Witness ==
  /\ pc = "suggested"
  /\ complexity_score(prompt) <= BandSimple
  /\ ~ can_simple(prompt)
  /\ suggestion.suggested_model = "ollama"

\* the keyword categories of suggest_optimal_model a prompt matches
matched_categories(p) ==
  {c \in {REASONING_WORDS, TECHNICAL_WORDS, CREATIVE_WORDS, QUANTITATIVE_WORDS,
          PROCEDURAL_WORDS, ELABORATION_WORDS, CONJUNCTION_WORDS} :
     re_search_words(c, lower(p))}

\* the token count suggest_optimal_model takes of a prompt
tokens_of(p) == len_split(preprocess_prompt(p))

\* the length bucket of a token count: at most 50, 51 to 100, more than 100
length_bucket(n) == IF n > LengthStep2 THEN 2 ELSE IF n > LengthStep1 THEN 1 ELSE 0

\* C11: among prompts that match the same keyword categories, the score
\* does not decrease with the token count, and a prompt in a higher length
\* bucket (more than 100 tokens above 51 to 100, above at most 50) scores
\* strictly more.
C11_LengthBonusSteps ==
  pc = "suggested" =>
    \A q \in Queries :
      (matched_categories(q) = matched_categories(prompt)
         /\ tokens_of(q) <= tokens_of(prompt)) =>
        /\ complexity_score(q) <= complexity_score(prompt)
        /\ (length_bucket(tokens_of(q)) < length_bucket(tokens_of(prompt))
              => complexity_score(q) < complexity_score(prompt))

(***************************************************************************)
(* The postprocessor on its own: remove_duplicate_lines applied to a text, *)
(* and again to its own output.                                            *)
(***************************************************************************)
MaxLines == 3
MaxPasses == 2

\* the lines the texts are made of
PostLines ==
  { <<>>,
    <<" ">>,
    <<"S","u","n">>,
    <<" ","S","u","n"," ">>,
    <<"1","."," ","S","u","n">>,
    <<"2",")"," "," ","S","u","n">>,
    <<"M","o","o","n">>,
    <<"1",".">>,
    <<"1","."," ","2","."," ","S","u","n">> }

\* the texts of at most MaxLines lines
PostTexts ==
  { join_lines(ls) : ls \in UNION {[1..n -> PostLines] : n \in 1..MaxLines} }

PostInit ==
  /\ no_request
  /\ post_text \in PostTexts
  /\ post_outputs = <<>>

\* query_claude: answer = remove_duplicate_lines(...), on the text at first and
\* then on the answer
postprocess ==
  /\ Len(post_outputs) < MaxPasses
  /\ post_outputs' =
       Append(post_outputs,
              remove_duplicate_lines(IF post_outputs = <<>> THEN post_text
                                     ELSE post_outputs[Len(post_outputs)]))
  /\ UNCHANGED post_text
  /\ UNCHANGED request

PostNext == postprocess

PostSpec == PostInit /\ [][PostNext]_vars

\* the lines of a text at the positions ks, in their order, joined again
lines_at(lines, ks) ==
  LET nth(n) == CHOOSE k \in ks : Cardinality({j \in ks : j < k}) = n - 1
  IN  join_lines([n \in 1..Cardinality(ks) |-> lines[nth(n)]])

\* C12: the output holds exactly the first occurrence of each distinct
\* marker-stripped line, in the original order and with the original line
\* text; a second pass gives the same output as the first.
C12_KeepsFirstOccurrences ==
  post_outputs # <<>> =>
    LET lines == split_lines(post_text)
        firsts == {k \in DOMAIN lines :
                     \A j \in 1..(k-1) : sub_marker(lines[j]) # sub_marker(lines[k])}
    IN  /\ post_outputs[1] = lines_at(lines, firsts)
        /\ \A n \in DOMAIN post_outputs : post_outputs[n] = post_outputs[1]

\* C12, amended: the output holds exactly the first occurrence of each
\* distinct trimmed and marker-stripped line that is not empty, in the
\* original order, each as the original line trimmed of the whitespace
\* around it, marker kept; a second pass gives the same output as the first.
C12_KeepsTrimmedFirstOccurrences ==
  post_outputs # <<>> =>
    LET lines == split_lines(post_text)
        trimmed == [k \in DOMAIN lines |-> strip(lines[k])]
        firsts == {k \in DOMAIN lines :
                     /\ sub_marker(trimmed[k]) # <<>>
                     /\ \A j \in 1..(k-1) : sub_marker(trimmed[j]) # sub_marker(trimmed[k])}
    IN  /\ post_outputs[1] = lines_at(trimmed, firsts)
        /\ \A n \in DOMAIN post_outputs : post_outputs[n] = post_outputs[1]

C12_Witness ==
  /\ post_text = <<"1","."," ","S","u","n","\n","2",")"," "," ","S","u","n","\n","M","o","o","n">>
  /\ Len(post_outputs) = 2
  /\ post_outputs[1] = <<"1","."," ","S","u","n","\n","M","o","o","n">>
  /\ post_outputs[2] = post_outputs[1]

====
